---- MODULE Spec2Model ----
(***************************************************************************)
(* gag, the tag explorer: a state-machine model of the query pipeline of   *)
(* main() in src/unnamed/part_001 (the snapshot with --date and --invert), *)
(* specification Spec, and of the main() of src/main.go that builds its    *)
(* two indexes in two goroutines, specification SpecForkJoin.              *)
(* Strings are TLA+ strings (sequences of characters); a Go Set            *)
(* (map[string]bool whose values are all true) is a TLA+ set; a            *)
(* map[string]Set is a function whose DOMAIN is the set of keys.           *)
(***************************************************************************)
EXTENDS Integers, Sequences, FiniteSets, TLC

VARIABLES
    pc,           \* the step of main() that runs next
    args,         \* os.Args[1:], the command line
    query,        \* --query, the raw query string
    date,         \* --date, "" when not given
    grep,         \* --grep
    find,         \* --find
    diff,         \* --diff
    invert,       \* --invert
    verbose,      \* --verbose
    filelist,     \* the paths Filelist returns
    queries,      \* the parsed query terms
    entries,      \* the records, after the date filter once it has run
    tagmap,       \* tag -> set of filenames
    files,        \* the result set
    adjacencies,  \* tag -> set of co-occurring tags, over the result set
    reduced,      \* the reduced adjacency set
    output,       \* what has been written to the terminal
    tmtask,       \* the goroutine that sends Tagmap(entries) on tmch
    adtask        \* the goroutine that sends Adjacencies(entries) on adch

flags == <<query, date, grep, find, diff, invert, verbose>>

tasks == <<tmtask, adtask>>

vars == <<pc, args, flags, filelist, queries, entries, tagmap, files, adjacencies,
          reduced, output, tasks>>

----------------------------------------------------------------------------
(* Bounds of the model.                                                    *)

\* most files in the file list
MaxFiles == 3

\* longest term list the pure-function properties quantify over
MaxTerms == 3

----------------------------------------------------------------------------
(* The inputs: the command line and the files on disk.                     *)

\* the values of --query: one term, AND-joined and comma-joined terms, a term
\* no file is tagged with, an upper-case term, empty terms
QueryArgs ==
    {"", "a", "b", "A", "a+b", "b+c", "c+a", "a,b", "a+b+c", "a+", "a,b+c"}

\* the values of --date: none, a single day, a range, a malformed one
DateArgs == {"", "2024.09.25", "2024.09.25-2024.09.26", "x"}

\* os.Args[1:]: the query as the first positional argument or absent, then
\* each flag given or not
ArgLists ==
    {q \o d \o g \o f \o x \o i \o v :
        q \in {<<>>} \cup {<<a>> : a \in QueryArgs},
        d \in {<<>>} \cup {<<"--date", a>> : a \in DateArgs \ {""}},
        g \in {<<>>, <<"--grep">>},
        f \in {<<>>, <<"--find">>},
        x \in {<<>>, <<"--diff">>},
        i \in {<<>>, <<"--invert">>},
        v \in {<<>>, <<"--verbose">>}}

\* the paths a glob can return, in the lexical order filepath.Glob gives
AllPaths == <<"p/1a", "p/2b", "p/3", "q/1a", "q/4a">>

\* os.ReadFile: the content of each path
ReadFile(path) ==
    CASE path = "p/1a" -> "# 1\n: 2024.09.25\n+ a\n+ b\n+ c\n\nx"
      [] path = "p/2b" -> ": 2024.09.26\n+ b\n+ c\n\nA"
      [] path = "p/3"  -> "+ a\n+ a\n\n: 2024.09.25"
      [] path = "q/1a" -> ": 2024.09.31\n+ c"
      [] path = "q/4a" -> "\n: 2024.09.25\n\n+ a\nB"

RECURSIVE SeqOfIndices(_)
SeqOfIndices(S) ==
    IF S = {} THEN <<>>
    ELSE LET m == CHOOSE x \in S : \A y \in S : x <= y
         IN  <<AllPaths[m]>> \o SeqOfIndices(S \ {m})

\* the file lists: the sorted sub-lists of AllPaths of at most MaxFiles paths
FileLists ==
    {SeqOfIndices(S) : S \in {T \in SUBSET (1..Len(AllPaths)) : Cardinality(T) <= MaxFiles}}

----------------------------------------------------------------------------
(* Go's strings package, on TLA+ strings.                                  *)

\* strings.Index, 1-based; 0 when sub does not occur
Index(s, sub) ==
    LET hits == {i \in 1..(Len(s) - Len(sub) + 1) : SubSeq(s, i, i + Len(sub) - 1) = sub}
    IN  IF hits = {} THEN 0 ELSE CHOOSE i \in hits : \A j \in hits : i <= j

Contains(s, sub) == Index(s, sub) # 0

HasPrefix(s, prefix) ==
    Len(s) >= Len(prefix) /\ SubSeq(s, 1, Len(prefix)) = prefix

\* strings.Split with a non-empty separator
RECURSIVE Split(_, _)
Split(s, sep) ==
    LET i == Index(s, sep)
    IN  IF i = 0 THEN <<s>>
        ELSE <<SubSeq(s, 1, i - 1)>> \o Split(SubSeq(s, i + Len(sep), Len(s)), sep)

\* strings.Cut: the text before the first sep, the whole string if absent
CutBefore(s, sep) ==
    LET i == Index(s, sep)
    IN  IF i = 0 THEN s ELSE SubSeq(s, 1, i - 1)

LowerChar(c) ==
    CASE c = "A" -> "a"
      [] c = "B" -> "b"
      [] c = "C" -> "c"
      [] OTHER  -> c

RECURSIVE ToLower(_)
ToLower(s) ==
    IF Len(s) = 0 THEN ""
    ELSE LowerChar(SubSeq(s, 1, 1)) \o ToLower(SubSeq(s, 2, Len(s)))

\* the value of a decimal digit, -1 for any other character
Digit(c) ==
    CASE c = "0" -> 0 [] c = "1" -> 1 [] c = "2" -> 2 [] c = "3" -> 3
      [] c = "4" -> 4 [] c = "5" -> 5 [] c = "6" -> 6 [] c = "7" -> 7
      [] c = "8" -> 8 [] c = "9" -> 9 [] OTHER -> -1

IsDigits(s) == \A i \in 1..Len(s) : Digit(SubSeq(s, i, i)) >= 0

RECURSIVE Atoi(_)
Atoi(s) ==
    IF Len(s) = 0 THEN 0
    ELSE 10 * Atoi(SubSeq(s, 1, Len(s) - 1)) + Digit(SubSeq(s, Len(s), Len(s)))

\* slices.Contains
SlicesContains(seq, x) == \E i \in 1..Len(seq) : seq[i] = x

\* slices.Delete(seq, i, i+1), 1-based
SlicesDelete(seq, i) == SubSeq(seq, 1, i - 1) \o SubSeq(seq, i + 1, Len(seq))

\* the elements of a slice, as a set
Range(seq) == {seq[i] : i \in 1..Len(seq)}

\* the characters of the model in byte order
ByteOrder == "\n #+,-./0123456789:=ABX[]abcdefghijklmnopqrstuvwxyz"

\* the comparison slices.Sort makes on strings: bytewise, a prefix first
RECURSIVE Less(_, _)
Less(s, t) ==
    IF Len(t) = 0 THEN FALSE
    ELSE IF Len(s) = 0 THEN TRUE
    ELSE LET a == Index(ByteOrder, SubSeq(s, 1, 1))
             b == Index(ByteOrder, SubSeq(t, 1, 1))
         IN  IF a # b THEN a < b
             ELSE Less(SubSeq(s, 2, Len(s)), SubSeq(t, 2, Len(t)))

\* slices.Sort of the members of a set of strings
RECURSIVE SlicesSort(_)
SlicesSort(S) ==
    IF S = {} THEN <<>>
    ELSE LET m == CHOOSE x \in S : \A y \in S \ {x} : Less(x, y)
         IN  <<m>> \o SlicesSort(S \ {m})

\* strings.Join(elems, sep)
RECURSIVE Join(_, _)
Join(elems, sep) ==
    IF Len(elems) = 0 THEN ""
    ELSE IF Len(elems) = 1 THEN elems[1]
    ELSE elems[1] \o sep \o Join(Tail(elems), sep)

\* strings.Count(s, sub) for a one-character sub
RECURSIVE Count(_, _)
Count(s, sub) ==
    IF Len(s) = 0 THEN 0
    ELSE (IF SubSeq(s, 1, 1) = sub THEN 1 ELSE 0) + Count(SubSeq(s, 2, Len(s)), sub)

\* how fmt prints a non-negative int
RECURSIVE Itoa(_)
Itoa(n) ==
    LET d == SubSeq("0123456789", (n % 10) + 1, (n % 10) + 1)
    IN  IF n < 10 THEN d ELSE Itoa(n \div 10) \o d

\* fmt.Sprintln of one string
Sprintln(s) == s \o "\n"

----------------------------------------------------------------------------
(* Set and map[string]Set.                                                 *)

\* m[k] of a Go map: the nil (empty) Set when k is not a key
Get(m, k) == IF k \in DOMAIN m THEN m[k] ELSE {}

\* "allocate submap if necessary"
Alloc(m, k) == IF k \in DOMAIN m THEN m ELSE m @@ (k :> {})

\* allocate if necessary, then m[k].Add(v)
AllocAdd(m, k, v) ==
    [x \in DOMAIN m \cup {k} |-> IF x = k THEN Get(m, k) \cup {v} ELSE m[x]]

EmptyMap == << >>

----------------------------------------------------------------------------
(* Loading: ParseQuery, ParseHeader, ParseTags, ParseContent, Entries.     *)

\* ParseQuery: strings.Split(query, "+")
ParseQuery(q) == Split(q, "+")

\* ParseHeader: the text before the first "\n\n", the whole text if none
ParseHeader(content) == CutBefore(content, "\n\n")

\* one line of the header against TAG_REGEXP (?m)^\+ (.+)$
RECURSIVE ParseTagsLines(_, _)
ParseTagsLines(lines, i) ==
    IF i > Len(lines) THEN <<>>
    ELSE LET line == lines[i]
         IN  IF HasPrefix(line, "+ ") /\ Len(line) > 2
             THEN <<SubSeq(line, 3, Len(line))>> \o ParseTagsLines(lines, i + 1)
             ELSE ParseTagsLines(lines, i + 1)

ParseTags(header) == ParseTagsLines(Split(header, "\n"), 1)

----------------------------------------------------------------------------
(* Dates.  A time.Time holding a calendar day is the number                *)
(* year * 10000 + month * 100 + day, which orders as Time.Compare does.    *)

\* time.Time{}: January 1, year 1
ZeroTime == 10101

IsLeap(y) == y % 4 = 0 /\ (y % 100 # 0 \/ y % 400 = 0)

DaysIn(m, y) ==
    IF m = 2 THEN (IF IsLeap(y) THEN 29 ELSE 28)
    ELSE IF m \in {4, 6, 9, 11} THEN 30 ELSE 31

\* time.Parse(DATE_FORMAT, v) with its error dropped: the zero time on any error
TimeParse(v) ==
    IF /\ Len(v) = 10
       /\ IsDigits(SubSeq(v, 1, 4))
       /\ SubSeq(v, 5, 5) = "."
       /\ IsDigits(SubSeq(v, 6, 7))
       /\ SubSeq(v, 8, 8) = "."
       /\ IsDigits(SubSeq(v, 9, 10))
    THEN LET y == Atoi(SubSeq(v, 1, 4))
             m == Atoi(SubSeq(v, 6, 7))
             d == Atoi(SubSeq(v, 9, 10))
         IN  IF m \in 1..12 /\ d \in 1..DaysIn(m, y)
             THEN y * 10000 + m * 100 + d
             ELSE ZeroTime
    ELSE ZeroTime

\* a line against DATE_REGEXP (?m)^\: ([\.0-9]+?)$
IsDateLine(line) ==
    /\ HasPrefix(line, ": ")
    /\ Len(line) > 2
    /\ \A i \in 3..Len(line) :
          SubSeq(line, i, i) = "." \/ Digit(SubSeq(line, i, i)) >= 0

\* ParseDate with its error dropped: the first date line of the header, parsed
ParseDate(header) ==
    LET lines == Split(header, "\n")
        hits  == {i \in 1..Len(lines) : IsDateLine(lines[i])}
    IN  IF hits = {} THEN ZeroTime
        ELSE LET i == CHOOSE k \in hits : \A j \in hits : k <= j
             IN  TimeParse(SubSeq(lines[i], 3, Len(lines[i])))

\* filepath.Base of a clean relative path
Base(path) ==
    LET parts == Split(path, "/") IN parts[Len(parts)]

ParseContent(filename, content) ==
    [filename |-> Base(filename),
     date     |-> ParseDate(ParseHeader(content)),
     content  |-> content,
     tags     |-> ParseTags(ParseHeader(content))]

Entries(fl) == [i \in 1..Len(fl) |-> ParseContent(fl[i], ReadFile(fl[i]))]

----------------------------------------------------------------------------
(* Index building: Tagmap and Adjacencies.                                 *)

\* mutant of TagmapTags: the loop stops after the record's first tag
TagmapTagsFirstOnly(tm, e, i) ==
    IF Len(e.tags) = 0 THEN tm ELSE AllocAdd(tm, e.tags[1], e.filename)

\* Tagmap, the inner loop: for _, tag := range e.tags
RECURSIVE TagmapTags(_, _, _)
TagmapTags(tm, e, i) ==
    IF i > Len(e.tags) THEN tm
    ELSE TagmapTags(AllocAdd(tm, e.tags[i], e.filename), e, i + 1)

\* Tagmap, the outer loop: for _, e := range entries
RECURSIVE TagmapEntries(_, _, _)
TagmapEntries(tm, es, n) ==
    IF n > Len(es) THEN tm
    ELSE TagmapEntries(TagmapTags(tm, es[n], 1), es, n + 1)

Tagmap(es) == TagmapEntries(EmptyMap, es, 1)

\* Adjacencies: for _, other := range others { adjacencies[tag].Add(other) }
RECURSIVE AdjacenciesOthers(_, _, _, _)
AdjacenciesOthers(adj, tag, others, j) ==
    IF j > Len(others) THEN adj
    ELSE AdjacenciesOthers(AllocAdd(adj, tag, others[j]), tag, others, j + 1)

\* mutant of AdjacenciesTags: no submap is allocated for a tag without others
RECURSIVE AdjacenciesTagsNoAlloc(_, _, _)
AdjacenciesTagsNoAlloc(adj, e, i) ==
    IF i > Len(e.tags) THEN adj
    ELSE AdjacenciesTagsNoAlloc(
             AdjacenciesOthers(adj, e.tags[i], SlicesDelete(e.tags, i), 1), e, i + 1)

\* Adjacencies: for i, tag := range e.tags, others is e.tags minus position i
RECURSIVE AdjacenciesTags(_, _, _)
AdjacenciesTags(adj, e, i) ==
    IF i > Len(e.tags) THEN adj
    ELSE LET tag    == e.tags[i]
             others == SlicesDelete(e.tags, i)
         IN  AdjacenciesTags(AdjacenciesOthers(Alloc(adj, tag), tag, others, 1), e, i + 1)

\* mutant of AdjacenciesEntries: every record contributes, in fs or not
RECURSIVE AdjacenciesEntriesAll(_, _, _, _)
AdjacenciesEntriesAll(adj, es, fs, n) ==
    IF n > Len(es) THEN adj
    ELSE AdjacenciesEntriesAll(AdjacenciesTags(adj, es[n], 1), es, fs, n + 1)

\* Adjacencies: for _, e := range entries, skipping files outside fs
RECURSIVE AdjacenciesEntries(_, _, _, _)
AdjacenciesEntries(adj, es, fs, n) ==
    IF n > Len(es) THEN adj
    ELSE IF es[n].filename \notin fs
         THEN AdjacenciesEntries(adj, es, fs, n + 1)
         ELSE AdjacenciesEntries(AdjacenciesTags(adj, es[n], 1), es, fs, n + 1)

Adjacencies(es, fs) == AdjacenciesEntries(EmptyMap, es, fs, 1)

----------------------------------------------------------------------------
(* The date filter.                                                        *)

\* the loop of Date: keep, in order, the entries with from <= e.date <= to
\* the filter with both ends exclusive
RECURSIVE DateEntriesExclusive(_, _, _, _)
DateEntriesExclusive(es, from, to, n) ==
    IF n > Len(es) THEN <<>>
    ELSE IF from < es[n].date /\ es[n].date < to
         THEN <<es[n]>> \o DateEntriesExclusive(es, from, to, n + 1)
         ELSE DateEntriesExclusive(es, from, to, n + 1)

RECURSIVE DateEntries(_, _, _, _)
DateEntries(es, from, to, n) ==
    IF n > Len(es) THEN <<>>
    ELSE IF from <= es[n].date /\ es[n].date <= to
         THEN <<es[n]>> \o DateEntries(es, from, to, n + 1)
         ELSE DateEntries(es, from, to, n + 1)

Date(es, d) ==
    LET ok   == Contains(d, "-")
        f    == CutBefore(d, "-")
        t    == IF ok THEN SubSeq(d, Index(d, "-") + 1, Len(d)) ELSE ""
        from == TimeParse(f)
        to   == IF ok THEN TimeParse(t) ELSE TimeParse(f)
    IN  DateEntries(es, from, to, 1)

----------------------------------------------------------------------------
(* Widening and narrowing of the tagmap: Grep, Find, Diff.                 *)

RECURSIVE GrepQueries(_, _, _, _)
GrepQueries(tm, e, qs, j) ==
    IF j > Len(qs) THEN tm
    ELSE IF Contains(ToLower(e.content), qs[j])
         THEN GrepQueries(AllocAdd(tm, qs[j], e.filename), e, qs, j + 1)
         ELSE GrepQueries(tm, e, qs, j + 1)

RECURSIVE GrepEntries(_, _, _, _)
GrepEntries(tm, es, qs, n) ==
    IF n > Len(es) THEN tm
    ELSE GrepEntries(GrepQueries(tm, es[n], qs, 1), es, qs, n + 1)

Grep(es, tm, qs) == GrepEntries(tm, es, qs, 1)

\* Grep of part_000: tagmap[query][e.filename] = true with no allocation; the
\* assignment panics when tagmap[query] is the nil map of a missing key
RECURSIVE Grep000Queries(_, _, _, _)
Grep000Queries(r, e, qs, j) ==
    IF j > Len(qs) \/ r.panicked THEN r
    ELSE IF Contains(ToLower(e.content), qs[j])
         THEN IF qs[j] \in DOMAIN r.tagmap
              THEN Grep000Queries([r EXCEPT !.tagmap = AllocAdd(@, qs[j], e.filename)],
                                  e, qs, j + 1)
              ELSE [r EXCEPT !.panicked = TRUE]
         ELSE Grep000Queries(r, e, qs, j + 1)

RECURSIVE Grep000Entries(_, _, _, _)
Grep000Entries(r, es, qs, n) ==
    IF n > Len(es) \/ r.panicked THEN r
    ELSE Grep000Entries(Grep000Queries(r, es[n], qs, 1), es, qs, n + 1)

Grep000(es, tm, qs) == Grep000Entries([panicked |-> FALSE, tagmap |-> tm], es, qs, 1)

\* Find adding the filename under every term, matching or not
RECURSIVE FindQueriesNoTest(_, _, _, _)
FindQueriesNoTest(tm, e, qs, j) ==
    IF j > Len(qs) THEN tm
    ELSE FindQueriesNoTest(AllocAdd(tm, qs[j], e.filename), e, qs, j + 1)

RECURSIVE FindQueries(_, _, _, _)
FindQueries(tm, e, qs, j) ==
    IF j > Len(qs) THEN tm
    ELSE IF Contains(e.filename, qs[j])
         THEN FindQueries(AllocAdd(tm, qs[j], e.filename), e, qs, j + 1)
         ELSE FindQueries(tm, e, qs, j + 1)

RECURSIVE FindEntries(_, _, _, _)
FindEntries(tm, es, qs, n) ==
    IF n > Len(es) THEN tm
    ELSE FindEntries(FindQueries(tm, es[n], qs, 1), es, qs, n + 1)

Find(es, tm, qs) == FindEntries(tm, es, qs, 1)

\* delete(tagmap[query], e.filename) when the key exists
Delete(m, k, v) ==
    IF k \in DOMAIN m THEN [m EXCEPT ![k] = @ \ {v}] ELSE m

\* Diff deleting the filename under every tag of the record once a term matches
DiffQueriesEveryTag(tm, e, qs, j) ==
    IF \E k \in 1..Len(qs) : SlicesContains(e.tags, qs[k])
    THEN [t \in DOMAIN tm |->
             IF SlicesContains(e.tags, t) THEN tm[t] \ {e.filename} ELSE tm[t]]
    ELSE tm

RECURSIVE DiffQueries(_, _, _, _)
DiffQueries(tm, e, qs, j) ==
    IF j > Len(qs) THEN tm
    ELSE IF SlicesContains(e.tags, qs[j])
         THEN DiffQueries(Delete(tm, qs[j], e.filename), e, qs, j + 1)
         ELSE DiffQueries(tm, e, qs, j + 1)

RECURSIVE DiffEntries(_, _, _, _)
DiffEntries(tm, es, qs, n) ==
    IF n > Len(es) THEN tm
    ELSE DiffEntries(DiffQueries(tm, es[n], qs, 1), es, qs, n + 1)

\* the loop of Diff starting at the second record
DiffFromSecond(es, tm, qs) == DiffEntries(tm, es, qs, 2)

Diff(es, tm, qs) == DiffEntries(tm, es, qs, 1)

----------------------------------------------------------------------------
(* Evaluation: Intersect, IntersectQueries, Invert, ReduceAdjacencies.     *)

\* mutant of Intersect: the union of the two sets
IntersectAsUnion(p, q) == p \cup q

Intersect(p, q) == {m \in p : m \in q}

\* the loop for i := 1; i < len(queries); i++ (1-based here)
RECURSIVE IntersectLoop(_, _, _, _)
IntersectLoop(set, tm, qs, i) ==
    IF i > Len(qs) THEN set
    ELSE IntersectLoop(Intersect(set, Get(tm, qs[i])), tm, qs, i + 1)

IntersectQueries(tm, qs) ==
    IF Len(qs) < 1 THEN {}
    ELSE IntersectLoop(Get(tm, qs[1]), tm, qs, 2)

\* mutant of InvertEntries: the membership test is not negated
RECURSIVE InvertEntriesKept(_, _, _, _)
InvertEntriesKept(set, es, fs, n) ==
    IF n > Len(es) THEN set
    ELSE IF es[n].filename \in fs
         THEN InvertEntriesKept(set \cup {es[n].filename}, es, fs, n + 1)
         ELSE InvertEntriesKept(set, es, fs, n + 1)

RECURSIVE InvertEntries(_, _, _, _)
InvertEntries(set, es, fs, n) ==
    IF n > Len(es) THEN set
    ELSE IF es[n].filename \notin fs
         THEN InvertEntries(set \cup {es[n].filename}, es, fs, n + 1)
         ELSE InvertEntries(set, es, fs, n + 1)

\* the loop of Invert starting at the second record
InvertFromSecond(es, fs) == InvertEntries({}, es, fs, 2)

Invert(es, fs) == InvertEntries({}, es, fs, 1)

\* mutant of ReduceQueries: the query terms are not excluded
RECURSIVE ReduceQueriesKeepTerms(_, _, _, _)
ReduceQueriesKeepTerms(red, adj, qs, j) ==
    IF j > Len(qs) THEN red
    ELSE ReduceQueriesKeepTerms(red \cup Get(adj, qs[j]), adj, qs, j + 1)

RECURSIVE ReduceQueries(_, _, _, _)
ReduceQueries(red, adj, qs, j) ==
    IF j > Len(qs) THEN red
    ELSE ReduceQueries(
             red \cup {tag \in Get(adj, qs[j]) : ~SlicesContains(qs, tag)},
             adj, qs, j + 1)

ReduceAdjacencies(adj, qs, inv) ==
    IF inv THEN DOMAIN adj
    ELSE ReduceQueries({}, adj, qs, 1)

----------------------------------------------------------------------------
(* The report: Set.Members, SprintFiles, Print.                            *)

\* s.Members(): the keys of the Go map in the order the runtime iterates them,
\* which the language leaves unspecified: every ordering is a possible result
SetMembers(s) ==
    {o \in [1..Cardinality(s) -> s] : \A i, j \in 1..Cardinality(s) : o[i] = o[j] => i = j}

SprintFiles(fs) == Sprintln(Join(SlicesSort(fs), "\n"))

\* for _, q := range queries { tags += fmt.Sprintln(q) }
RECURSIVE SprintEach(_)
SprintEach(seq) ==
    IF Len(seq) = 0 THEN "" ELSE Sprintln(seq[1]) \o SprintEach(Tail(seq))

\* the [sums] section of Print in part_001
Sums(fs, adj) ==
    Sprintln("[sums]")
        \o Sprintln("files = " \o Itoa(Cardinality(fs)))
        \o Sprintln("adjacencies = " \o Itoa(Cardinality(adj)))

\* Print of part_001; members is what adjacencies.Members() returned
PrintOut(fs, members, qs, v) ==
    LET f == SprintFiles(fs)
        filesstr == Sprintln("[files]") \o f
        tags == Sprintln("[tags]") \o SprintEach(qs)
        adj == Sprintln("[adjacencies]") \o Sprintln(Join(members, "\n"))
        sums == Sums(fs, Range(members))
    IN  IF ~v THEN f
        ELSE Sprintln(filesstr) \o Sprintln(tags) \o Sprintln(adj) \o Sprintln(sums)

\* the [sums] section of Print in part_002; f is SprintFiles(files)
Sums002(f, adj) ==
    Sprintln("[sums]")
        \o Sprintln("files = " \o Itoa(Count(f, "\n")))
        \o Sprintln("adjacencies = " \o Itoa(Cardinality(adj)))

\* Print of part_002; members is the order in which range visits adjacencies
PrintOut002(fs, members, qs, v) ==
    LET f == SprintFiles(fs)
        filesstr == Sprintln("[files]") \o f
        tags == Sprintln("[tags]") \o SprintEach(qs)
        adj == Sprintln("[adjacencies]") \o SprintEach(members)
        sums == Sums002(f, Range(members))
    IN  IF ~v THEN f
        ELSE Sprintln(filesstr) \o Sprintln(tags) \o Sprintln(adj) \o Sprintln(sums)

\* what flag.Usage writes
Usage == "Usage of gag:\n"

----------------------------------------------------------------------------
(* The command line: flag.Parse.                                           *)

\* the values of the flags before flag.Parse
FlagDefaults ==
    [query |-> "", date |-> "", grep |-> FALSE, find |-> FALSE, diff |-> FALSE,
     invert |-> FALSE, verbose |-> FALSE]

\* the name of a flag token: one or two leading dashes removed
FlagName(tok) ==
    IF HasPrefix(tok, "--") THEN SubSeq(tok, 3, Len(tok)) ELSE SubSeq(tok, 2, Len(tok))

\* flag.Parse over os.Args[1:]: string flags take the next token, boolean flags
\* none, and parsing stops at the first token that is not a flag
RECURSIVE FlagParse(_, _, _)
FlagParse(fl, a, i) ==
    IF i > Len(a) THEN fl
    ELSE IF ~HasPrefix(a[i], "-") THEN fl
    ELSE LET name == FlagName(a[i])
         IN  IF name \in {"query", "date"}
             THEN IF i + 1 > Len(a) THEN fl
                  ELSE FlagParse([fl EXCEPT ![name] = a[i + 1]], a, i + 2)
             ELSE FlagParse([fl EXCEPT ![name] = TRUE], a, i + 1)

----------------------------------------------------------------------------
(* main() of part_001: one action per step of the pipeline.                *)

Init ==
    /\ pc = "start"
    /\ args \in ArgLists
    /\ query = FlagDefaults.query
    /\ date = FlagDefaults.date
    /\ grep = FlagDefaults.grep
    /\ find = FlagDefaults.find
    /\ diff = FlagDefaults.diff
    /\ invert = FlagDefaults.invert
    /\ verbose = FlagDefaults.verbose
    /\ filelist \in FileLists
    /\ queries = <<>>
    /\ entries = <<>>
    /\ tagmap = EmptyMap
    /\ files = {}
    /\ adjacencies = EmptyMap
    /\ reduced = {}
    /\ output = ""
    /\ tmtask = [pc |-> "idle", i |-> 0, map |-> EmptyMap]
    /\ adtask = [pc |-> "idle", i |-> 0, map |-> EmptyMap]

\* if len(os.Args) <= 1 { flag.Usage(); return }
MainUsage ==
    /\ pc = "start"
    /\ Len(args) = 0
    /\ output' = Usage
    /\ pc' = "exit"
    /\ UNCHANGED <<args, flags, filelist, queries, entries, tagmap, files, adjacencies,
                   reduced, tasks>>

\* else if !strings.HasPrefix(os.Args[1], "-") { os.Args gets "--query" inserted }
\* flag.Parse(); queries := ParseQuery(*query); entries := Entries(filelist)
MainLoad ==
    /\ pc = "start"
    /\ Len(args) >= 1
    /\ LET a == IF ~HasPrefix(args[1], "-") THEN <<"--query">> \o args ELSE args
           fl == FlagParse(FlagDefaults, a, 1)
       IN  /\ args' = a
           /\ query' = fl.query
           /\ date' = fl.date
           /\ grep' = fl.grep
           /\ find' = fl.find
           /\ diff' = fl.diff
           /\ invert' = fl.invert
           /\ verbose' = fl.verbose
           /\ queries' = ParseQuery(fl.query)
    /\ entries' = Entries(filelist)
    /\ pc' = "date"
    /\ UNCHANGED <<filelist, tagmap, files, adjacencies, reduced, output, tasks>>

\* if *date != "" { entries = Date(entries, *date) }
MainDate ==
    /\ pc = "date"
    /\ entries' = IF date # "" THEN Date(entries, date) ELSE entries
    /\ pc' = "tagmap"
    /\ UNCHANGED <<args, flags, filelist, queries, tagmap, files, adjacencies, reduced,
                   output, tasks>>

\* tagmap := Tagmap(entries)
MainTagmap ==
    /\ pc = "tagmap"
    /\ tagmap' = Tagmap(entries)
    /\ pc' = "grep"
    /\ UNCHANGED <<args, flags, filelist, queries, entries, files, adjacencies, reduced,
                   output, tasks>>

\* if *grep { tagmap = Grep(entries, tagmap, queries) }
MainGrep ==
    /\ pc = "grep"
    /\ tagmap' = IF grep THEN Grep(entries, tagmap, queries) ELSE tagmap
    /\ pc' = "find"
    /\ UNCHANGED <<args, flags, filelist, queries, entries, files, adjacencies, reduced,
                   output, tasks>>

\* if *find { tagmap = Find(entries, tagmap, queries) }
MainFind ==
    /\ pc = "find"
    /\ tagmap' = IF find THEN Find(entries, tagmap, queries) ELSE tagmap
    /\ pc' = "diff"
    /\ UNCHANGED <<args, flags, filelist, queries, entries, files, adjacencies, reduced,
                   output, tasks>>

\* if *diff { tagmap = Diff(entries, tagmap, queries) }
MainDiff ==
    /\ pc = "diff"
    /\ tagmap' = IF diff THEN Diff(entries, tagmap, queries) ELSE tagmap
    /\ pc' = "intersect"
    /\ UNCHANGED <<args, flags, filelist, queries, entries, files, adjacencies, reduced,
                   output, tasks>>

\* files := IntersectQueries(tagmap, queries)
MainIntersectQueries ==
    /\ pc = "intersect"
    /\ files' = IntersectQueries(tagmap, queries)
    /\ pc' = "invert"
    /\ UNCHANGED <<args, flags, filelist, queries, entries, tagmap, adjacencies, reduced,
                   output, tasks>>

\* the Invert step with a widening step placed after it
MainInvertThenFind ==
    /\ pc = "invert"
    /\ files' = IF invert THEN Invert(entries, files) ELSE files
    /\ tagmap' = Find(entries, tagmap, queries)
    /\ pc' = "adjacencies"
    /\ UNCHANGED <<args, flags, filelist, queries, entries, adjacencies, reduced,
                   output, tasks>>

\* Invert taken over every loaded record instead of the date-filtered ones
MainInvertUnfiltered ==
    /\ pc = "invert"
    /\ files' = IF invert THEN Invert(Entries(filelist), files) ELSE files
    /\ pc' = "adjacencies"
    /\ UNCHANGED <<args, flags, filelist, queries, entries, tagmap, adjacencies, reduced,
                   output, tasks>>

\* if *invert { files = Invert(entries, files) }
MainInvert ==
    /\ pc = "invert"
    /\ files' = IF invert THEN Invert(entries, files) ELSE files
    /\ pc' = "adjacencies"
    /\ UNCHANGED <<args, flags, filelist, queries, entries, tagmap, adjacencies, reduced,
                   output, tasks>>

\* adjacencies := ReduceAdjacencies(Adjacencies(entries, files), queries, *invert)
MainAdjacencies ==
    /\ pc = "adjacencies"
    /\ adjacencies' = Adjacencies(entries, files)
    /\ reduced' = ReduceAdjacencies(adjacencies', queries, invert)
    /\ pc' = "print"
    /\ UNCHANGED <<args, flags, filelist, queries, entries, tagmap, files, output, tasks>>

\* Print(files, adjacencies, queries, *verbose)
MainPrint ==
    /\ pc = "print"
    /\ \E members \in SetMembers(reduced) :
           output' = PrintOut(files, members, queries, verbose)
    /\ pc' = "exit"
    /\ UNCHANGED <<args, flags, filelist, queries, entries, tagmap, files, adjacencies,
                   reduced, tasks>>

Next ==
    \/ MainUsage
    \/ MainLoad
    \/ MainDate
    \/ MainTagmap
    \/ MainGrep
    \/ MainFind
    \/ MainDiff
    \/ MainIntersectQueries
    \/ MainInvert
    \/ MainAdjacencies
    \/ MainPrint

Spec == Init /\ [][Next]_vars

----------------------------------------------------------------------------
(* main() of main.go (lines 295-346): Tagmap and Adjacencies run as two    *)
(* goroutines that send their maps on the unbuffered channels tmch and     *)
(* adch; main receives both and goes on with Grep, Find, Diff (the same    *)
(* code as in part_001) and with Collect or Intersections.  A goroutine    *)
(* takes one step per record of its loop.                                  *)

\* the command lines of this main: flags first, then the query
ForkQueryArgs == {"", "a", "a+b", "b+c"}

ForkArgLists ==
    {g \o f \o x \o v \o q :
        g \in {<<>>, <<"--grep">>},
        f \in {<<>>, <<"--find">>},
        x \in {<<>>, <<"--diff">>},
        v \in {<<>>, <<"--verbose">>},
        q \in {<<>>} \cup {<<a>> : a \in ForkQueryArgs}}

\* flag.Args(): the tokens flag.Parse left, from the first that is not a flag
RECURSIVE FlagArgs(_, _)
FlagArgs(a, i) ==
    IF i > Len(a) THEN <<>>
    ELSE IF ~HasPrefix(a[i], "-") THEN SubSeq(a, i, Len(a))
    ELSE IF FlagName(a[i]) \in {"query", "date"}
         THEN IF i + 1 > Len(a) THEN <<>> ELSE FlagArgs(a, i + 2)
         ELSE FlagArgs(a, i + 1)

\* a goroutine that has not been started
Idle == [pc |-> "idle", i |-> 0, map |-> EmptyMap]

\* Intersections of main.go: the intersection under the key of the joined terms
Intersections(tm, qs) ==
    IF Len(qs) < 1 THEN EmptyMap
    ELSE Join(qs, "+") :> IntersectLoop(Get(tm, qs[1]), tm, qs, 2)

\* Collect of main.go: the union of the files, and of the adjacent tags, of the terms
Collect(tm, adj, qs) ==
    [files       |-> UNION {Get(tm, qs[j]) : j \in 1..Len(qs)},
     adjacencies |-> UNION {Get(adj, qs[j]) : j \in 1..Len(qs)}]

\* PrintIntersections of main.go
PrintIntersections(intersections) ==
    Sprintln(Join(SlicesSort(UNION {intersections[k] : k \in DOMAIN intersections}), "\n"))

\* PrintCollection of main.go; members is the order range visits the adjacencies in
PrintCollection(collection, members, qs) ==
    Sprintln(Sprintln("[files]") \o SprintEach(SlicesSort(collection.files)))
        \o Sprintln(Sprintln("[tags]") \o SprintEach(qs))
        \o Sprintln(Sprintln("[adjacencies]") \o SprintEach(members))
        \o Sprintln(Sums(collection.files, collection.adjacencies))

ForkInit ==
    /\ pc = "start"
    /\ args \in ForkArgLists
    /\ query = FlagDefaults.query
    /\ date = FlagDefaults.date
    /\ grep = FlagDefaults.grep
    /\ find = FlagDefaults.find
    /\ diff = FlagDefaults.diff
    /\ invert = FlagDefaults.invert
    /\ verbose = FlagDefaults.verbose
    /\ filelist \in FileLists
    /\ queries = <<>>
    /\ entries = <<>>
    /\ tagmap = EmptyMap
    /\ files = {}
    /\ adjacencies = EmptyMap
    /\ reduced = {}
    /\ output = ""
    /\ tmtask = Idle
    /\ adtask = Idle

\* flag.Parse(); with no --query and no positional argument: flag.Usage(); return
ForkUsage ==
    /\ pc = "start"
    /\ FlagParse(FlagDefaults, args, 1).query = ""
    /\ Len(FlagArgs(args, 1)) = 0
    /\ output' = Usage
    /\ pc' = "exit"
    /\ UNCHANGED <<args, flags, filelist, queries, entries, tagmap, files, adjacencies,
                   reduced, tasks>>

\* flag.Parse(); the first positional argument is the query when --query is
\* empty; queries := ParseQuery(*query); entries := Entries(*glob); the channels
ForkLoad ==
    /\ pc = "start"
    /\ LET fl   == FlagParse(FlagDefaults, args, 1)
           rest == FlagArgs(args, 1)
           q    == IF fl.query = "" /\ Len(rest) > 0 THEN rest[1] ELSE fl.query
       IN  /\ fl.query # "" \/ Len(rest) > 0
           /\ query' = q
           /\ grep' = fl.grep
           /\ find' = fl.find
           /\ diff' = fl.diff
           /\ verbose' = fl.verbose
           /\ queries' = ParseQuery(q)
    /\ entries' = Entries(filelist)
    /\ pc' = "go_tm"
    /\ UNCHANGED <<args, date, invert, filelist, tagmap, files, adjacencies, reduced,
                   output, tasks>>

\* go func() { tmch <- Tagmap(entries) }()
ForkGoTagmap ==
    /\ pc = "go_tm"
    /\ tmtask' = [pc |-> "run", i |-> 1, map |-> EmptyMap]
    /\ pc' = "go_ad"
    /\ UNCHANGED <<args, flags, filelist, queries, entries, tagmap, files, adjacencies,
                   reduced, output, adtask>>

\* go func() { adch <- Adjacencies(entries) }()
ForkGoAdjacencies ==
    /\ pc = "go_ad"
    /\ adtask' = [pc |-> "run", i |-> 1, map |-> EmptyMap]
    /\ pc' = "recv_tm"
    /\ UNCHANGED <<args, flags, filelist, queries, entries, tagmap, files, adjacencies,
                   reduced, output, tmtask>>

\* Tagmap in its goroutine: one record of the loop, then ready to send
TagmapStep ==
    /\ tmtask.pc = "run"
    /\ tmtask' = IF tmtask.i > Len(entries)
                 THEN [tmtask EXCEPT !.pc = "send"]
                 ELSE [tmtask EXCEPT !.map = TagmapTags(@, entries[tmtask.i], 1),
                                     !.i = @ + 1]
    /\ UNCHANGED <<pc, args, flags, filelist, queries, entries, tagmap, files,
                   adjacencies, reduced, output, adtask>>

\* Adjacencies deleting from the record's own tag list, not from a copy of it
AdjacenciesStepInPlace ==
    /\ adtask.pc = "run"
    /\ IF adtask.i > Len(entries)
       THEN /\ adtask' = [adtask EXCEPT !.pc = "send"]
            /\ UNCHANGED entries
       ELSE /\ adtask' = [adtask EXCEPT !.map = AdjacenciesTags(@, entries[adtask.i], 1),
                                        !.i = @ + 1]
            /\ entries' = [entries EXCEPT ![adtask.i].tags =
                              IF Len(@) = 0 THEN @ ELSE SlicesDelete(@, Len(@))]
    /\ UNCHANGED <<pc, args, flags, filelist, queries, tagmap, files,
                   adjacencies, reduced, output, tmtask>>

\* Adjacencies in its goroutine: one record of the loop, then ready to send
AdjacenciesStep ==
    /\ adtask.pc = "run"
    /\ adtask' = IF adtask.i > Len(entries)
                 THEN [adtask EXCEPT !.pc = "send"]
                 ELSE [adtask EXCEPT !.map = AdjacenciesTags(@, entries[adtask.i], 1),
                                     !.i = @ + 1]
    /\ UNCHANGED <<pc, args, flags, filelist, queries, entries, tagmap, files,
                   adjacencies, reduced, output, tmtask>>

\* a receive that does not wait for the sender: it takes the map as it is
ForkRecvTagmapUnfinished ==
    /\ pc = "recv_tm"
    /\ tmtask.pc \in {"run", "send"}
    /\ tagmap' = tmtask.map
    /\ tmtask' = [tmtask EXCEPT !.pc = "done"]
    /\ pc' = "recv_ad"
    /\ UNCHANGED <<args, flags, filelist, queries, entries, files, adjacencies, reduced,
                   output, adtask>>

\* main taking the tagmap only once the adjacency map has been taken
ForkRecvTagmapAfterAdjacencies ==
    /\ pc = "recv_tm"
    /\ tmtask.pc = "send"
    /\ adtask.pc = "done"
    /\ tagmap' = tmtask.map
    /\ tmtask' = [tmtask EXCEPT !.pc = "done"]
    /\ pc' = "recv_ad"
    /\ UNCHANGED <<args, flags, filelist, queries, entries, files, adjacencies, reduced,
                   output, adtask>>

\* tagmap := <-tmch, with the send tmch <- ... of the goroutine: tmch is
\* unbuffered, so the two meet and the goroutine ends
ForkRecvTagmap ==
    /\ pc = "recv_tm"
    /\ tmtask.pc = "send"
    /\ tagmap' = tmtask.map
    /\ tmtask' = [tmtask EXCEPT !.pc = "done"]
    /\ pc' = "recv_ad"
    /\ UNCHANGED <<args, flags, filelist, queries, entries, files, adjacencies, reduced,
                   output, adtask>>

\* adjacencies := <-adch, with the send adch <- ... of the goroutine
ForkRecvAdjacencies ==
    /\ pc = "recv_ad"
    /\ adtask.pc = "send"
    /\ adjacencies' = adtask.map
    /\ adtask' = [adtask EXCEPT !.pc = "done"]
    /\ pc' = "grep"
    /\ UNCHANGED <<args, flags, filelist, queries, entries, tagmap, files, reduced,
                   output, tmtask>>

\* if *verbose { collection := Collect(...); PrintCollection(collection, queries) }
ForkCollect ==
    /\ pc = "intersect"
    /\ verbose
    /\ LET collection == Collect(tagmap, adjacencies, queries)
       IN  /\ files' = collection.files
           /\ reduced' = collection.adjacencies
           /\ \E members \in SetMembers(collection.adjacencies) :
                  output' = PrintCollection(collection, members, queries)
    /\ pc' = "exit"
    /\ UNCHANGED <<args, flags, filelist, queries, entries, tagmap, adjacencies, tasks>>

\* else { intersections := Intersections(...); PrintIntersections(intersections) }
ForkIntersections ==
    /\ pc = "intersect"
    /\ ~verbose
    /\ LET intersections == Intersections(tagmap, queries)
       IN  /\ files' = UNION {intersections[k] : k \in DOMAIN intersections}
           /\ output' = PrintIntersections(intersections)
    /\ pc' = "exit"
    /\ UNCHANGED <<args, flags, filelist, queries, entries, tagmap, adjacencies, reduced,
                   tasks>>

\* the steps Grep, Find and Diff are those of MainGrep, MainFind and MainDiff
ForkNext ==
    \/ ForkUsage
    \/ ForkLoad
    \/ ForkGoTagmap
    \/ ForkGoAdjacencies
    \/ TagmapStep
    \/ AdjacenciesStep
    \/ ForkRecvTagmap
    \/ ForkRecvAdjacencies
    \/ MainGrep
    \/ MainFind
    \/ MainDiff
    \/ ForkCollect
    \/ ForkIntersections

SpecForkJoin == ForkInit /\ [][ForkNext]_vars

\* the steps of main from the first go statement to the second receive
ForkJoinMain ==
    \/ ForkGoTagmap
    \/ ForkGoAdjacencies
    \/ ForkRecvTagmap
    \/ ForkRecvAdjacencies

\* the Go scheduler runs every goroutine that can run: through the fork-join
\* main and the two goroutines each take their next step when it stays possible
SpecForkJoinFair ==
    /\ ForkInit
    /\ [][ForkNext]_vars
    /\ WF_vars(ForkJoinMain)
    /\ WF_vars(TagmapStep)
    /\ WF_vars(AdjacenciesStep)

----------------------------------------------------------------------------
(* The sets the properties quantify over.                                  *)

\* query terms: the tags of the files and one that no file carries
Terms == {"a", "b", "c", "z"}

RECURSIVE SeqsOfLen(_, _)
SeqsOfLen(S, n) ==
    IF n = 0 THEN {<<>>}
    ELSE {Append(q, x) : q \in SeqsOfLen(S, n - 1), x \in S}

TermLists == UNION {SeqsOfLen(Terms, n) : n \in 0..MaxTerms}

\* the filenames of the files on disk and one that is no file's name
Filenames == {Base(AllPaths[i]) : i \in 1..Len(AllPaths)} \cup {"zz"}


\* the filenames of the records
Corpus == {entries[i].filename : i \in 1..Len(entries)}

\* the filenames of the records that carry tag T
Tagged(T) == {entries[i].filename : i \in {k \in 1..Len(entries) : T \in Range(entries[k].tags)}}

\* every filename in some entry of map m
Members(m) == UNION {m[k] : k \in DOMAIN m}

----------------------------------------------------------------------------
(* The query engine: evaluation.                                           *)

\* the filenames in tagmap[t] for every term t of qs, nothing for no term
InAllTerms(tm, qs) ==
    IF Len(qs) = 0 THEN {}
    ELSE {f \in Members(tm) : \A i \in 1..Len(qs) : f \in Get(tm, qs[i])}

\* C1: for the tagmap the pipeline evaluates and every term list,
\* IntersectQueries returns exactly the filenames that are in tagmap[t] for
\* every term t, a term without a key counting as the empty set and the empty
\* list giving the empty set; the result set of main is that set for the
\* parsed query.
C1_IntersectQueries ==
    /\ pc = "intersect" =>
         \A qs \in TermLists : IntersectQueries(tagmap, qs) = InAllTerms(tagmap, qs)
    /\ pc = "invert" => files = InAllTerms(tagmap, queries)

\* an AND of two terms whose result is non-empty and smaller than either entry
C1_Witness ==
    /\ pc = "invert"
    /\ Len(queries) = 2
    /\ files # {}
    /\ files # Get(tagmap, queries[1])
    /\ files # Get(tagmap, queries[2])

\* C2: in the map Tagmap builds, filename f is in tagmap[T] iff some record
\* with filename f has T in its tag list, and a tag no record carries is no key.
C2_Tagmap ==
    pc = "grep" =>
        /\ DOMAIN tagmap = UNION {Range(entries[i].tags) : i \in 1..Len(entries)}
        /\ \A T \in DOMAIN tagmap \cup Terms : Get(tagmap, T) = Tagged(T)

\* a tagmap with a tag shared by two files and a file with two distinct tags
C2_Witness ==
    /\ pc = "grep"
    /\ \E T \in DOMAIN tagmap : Cardinality(tagmap[T]) >= 2
    /\ \E i \in 1..Len(entries) : Cardinality(Range(entries[i].tags)) >= 2

\* the split the claim describes: on "," when present, else on "+"
OrFirstSplit(q) ==
    IF Contains(q, ",") THEN Split(q, ",")
    ELSE IF Contains(q, "+") THEN Split(q, "+")
    ELSE <<q>>

\* C3: ParseQuery splits the query on "," when it contains ",", otherwise on
\* "+" when it contains "+", otherwise yields the whole string as one term.
C3_ParseQueryOrFirst ==
    pc # "start" /\ Len(args) > 0 => queries = OrFirstSplit(query)

\* C4: for a query whose terms are joined by ",", the result set is the union
\* of the tagmap entries of the terms.
C4_OrIsUnion ==
    (pc = "invert" /\ Contains(query, ",")) =>
        files = UNION {Get(tagmap, t) : t \in Range(Split(query, ","))}

\* C5: Invert(entries, files) is the complement of files relative to the
\* corpus: exactly the filenames of records that are not in files, for every
\* filename set and for the result set main inverts.
C5_Invert ==
    /\ pc = "invert" =>
         \A S \in SUBSET Filenames :
            LET inv == Invert(entries, S)
            IN  /\ inv = Corpus \ S
                /\ inv \cap S = {}
                /\ Corpus \subseteq inv \cup S
    /\ (pc = "adjacencies" /\ invert) => files = Corpus \ InAllTerms(tagmap, queries)

\* an inverted result that is neither empty nor the whole corpus
C5_Witness ==
    /\ pc = "adjacencies"
    /\ invert
    /\ files # {}
    /\ files # Corpus
    /\ InAllTerms(tagmap, queries) # {}

----------------------------------------------------------------------------
(* The query engine: adjacencies.                                          *)

\* some record with its filename in R carries both A and B
CoOccur(A, B, R) ==
    \E i \in 1..Len(entries) :
        /\ entries[i].filename \in R
        /\ A \in Range(entries[i].tags)
        /\ B \in Range(entries[i].tags)

\* C6: for every filename set restrictTo and distinct tags A and B, B is in
\* Adjacencies(entries, restrictTo)[A] iff some record whose filename is in
\* restrictTo carries both A and B; so it is for the map main builds over the
\* result set.
C6_Adjacencies ==
    /\ pc = "adjacencies" =>
         \A R \in SUBSET Filenames :
            LET adj == Adjacencies(entries, R)
            IN  \A A \in Terms, B \in Terms :
                    A # B => (B \in Get(adj, A) <=> CoOccur(A, B, R))
    /\ pc = "print" =>
         \A A \in Terms, B \in Terms :
            A # B => (B \in Get(adjacencies, A) <=> CoOccur(A, B, files))

\* a record outside the result set whose tag pair is, for that, not adjacent
C6_Witness ==
    /\ pc = "print"
    /\ \E A \in DOMAIN adjacencies : adjacencies[A] # {}
    /\ \E i \in 1..Len(entries) :
          /\ entries[i].filename \notin files
          /\ \E A \in Range(entries[i].tags), B \in Range(entries[i].tags) :
                A # B /\ B \notin Get(adjacencies, A)

\* C7: no tag is a member of its own adjacency set, also for records whose
\* tag list repeats a tag.
C7_NoSelfAdjacency ==
    pc = "print" => \A T \in DOMAIN adjacencies : T \notin adjacencies[T]

\* C8: not inverted, ReduceAdjacencies returns the union of adjacency[t] over
\* the query terms t minus every tag that is itself a query term, for every
\* term list and for the parsed query of main.
C8_ReduceAdjacencies ==
    /\ pc = "print" =>
         \A qs \in TermLists :
            ReduceAdjacencies(adjacencies, qs, FALSE)
                = UNION {Get(adjacencies, t) : t \in Range(qs)} \ Range(qs)
    /\ (pc = "print" /\ ~invert) =>
         /\ reduced = UNION {Get(adjacencies, t) : t \in Range(queries)} \ Range(queries)
         /\ reduced \cap Range(queries) = {}

\* two terms, one adjacent to the other, and a third tag left in the reduction
C8_Witness ==
    /\ pc = "print"
    /\ ~invert
    /\ Len(queries) = 2
    /\ queries[2] \in Get(adjacencies, queries[1])
    /\ reduced # {}

\* C9: inverted, ReduceAdjacencies returns every key of the adjacency map,
\* which in main is exactly the set of tags carried by a record of the inverted
\* result set.
C9_ReduceInverted ==
    (pc = "print" /\ invert) =>
        /\ reduced = DOMAIN adjacencies
        /\ reduced = UNION {Range(entries[i].tags) :
                               i \in {k \in 1..Len(entries) : entries[k].filename \in files}}

\* an inverted result with a single-tag record, its tag carried by no other
C9_Witness ==
    /\ pc = "print"
    /\ invert
    /\ \E i \in 1..Len(entries) :
          /\ entries[i].filename \in files
          /\ Len(entries[i].tags) = 1
          /\ entries[i].tags[1] \in reduced
          /\ \A k \in 1..Len(entries) :
                (k # i /\ entries[k].filename \in files)
                    => entries[i].tags[1] \notin Range(entries[k].tags)

----------------------------------------------------------------------------
(* The query engine: widening.                                             *)

\* the filenames of the records whose body, case-folded, contains t case-folded
BodyMatches(t) ==
    {entries[i].filename :
        i \in {k \in 1..Len(entries) : Contains(ToLower(entries[k].content), ToLower(t))}}

\* C10: after Grep, tagmap[t] of every query term t is the set of files tagged
\* t together with the records whose case-folded body contains the case-folded
\* term.
C10_GrepCaseFolded ==
    (pc = "find" /\ grep) =>
        \A t \in Range(queries) : Get(tagmap, t) = Tagged(t) \cup BodyMatches(t)

----------------------------------------------------------------------------
(* The query engine: narrowing.                                            *)

\* the filenames of the records whose filename contains t
NameMatches(t) ==
    {entries[i].filename : i \in {k \in 1..Len(entries) : Contains(entries[k].filename, t)}}

\* C11: after Grep and/or Find followed by Diff, tagmap[t] of every query term
\* t holds exactly the filenames that matched t by content (when --grep is
\* given) or by filename (when --find is given) and that no record tagged t
\* carries: Diff has removed every filename whose record is tagged t.
C11_DiffLeavesUntaggedMatches ==
    (pc = "intersect" /\ diff /\ (grep \/ find)) =>
        \A t \in Range(queries) :
            Get(tagmap, t) =
                ((IF grep THEN BodyMatches(t) ELSE {}) \cup (IF find THEN NameMatches(t) ELSE {}))
                    \ Tagged(t)

----------------------------------------------------------------------------
(* The date filter.                                                        *)

\* the days the well-formed date arguments are built from
Days == {"0000.01.01", "2024.09.25", "2024.09.26", "2024.09.27"}

\* the well-formed date arguments: a day, or two days joined by "-"
WellFormedDates == Days \cup {a \o "-" \o b : a, b \in Days}

\* the calendar day a well-formed YYYY.MM.DD names
DayOf(s) ==
    Atoi(SubSeq(s, 1, 4)) * 10000 + Atoi(SubSeq(s, 6, 7)) * 100 + Atoi(SubSeq(s, 9, 10))

StartOf(d) == DayOf(SubSeq(d, 1, 10))

EndOf(d) == IF Len(d) = 10 THEN StartOf(d) ELSE DayOf(SubSeq(d, 12, 21))

\* the records of es dated from StartOf(d) to EndOf(d), in the order of es
InRange(es, d) ==
    SelectSeq(es, LAMBDA e : StartOf(d) <= e.date /\ e.date <= EndOf(d))

\* C12: for a well-formed date argument Date returns exactly the records whose
\* date d satisfies start <= d <= end, both ends inclusive, in their original
\* order, and a single day behaves as the range from that day to that day.
C12_DateInclusiveRange ==
    /\ (pc = "date" /\ Len(args) = 2) =>
          /\ \A d \in WellFormedDates : Date(entries, d) = InRange(entries, d)
          /\ \A a \in Days : Date(entries, a) = Date(entries, a \o "-" \o a)
    /\ (pc = "tagmap" /\ date \in WellFormedDates) =>
          entries = InRange(Entries(filelist), date)

\* a range has kept the records of both of its end days and dropped another
C12_Witness ==
    /\ pc = "tagmap"
    /\ date = "2024.09.25-2024.09.26"
    /\ Len(entries) < Len(filelist)
    /\ \E i, j \in 1..Len(entries) :
          /\ i < j
          /\ entries[i].date = StartOf(date)
          /\ entries[j].date = EndOf(date)

\* C13: a record whose date is unset is never retained by the Date filter,
\* whatever the date argument, an unparseable one included.
C13_UnsetDateDropped ==
    (pc = "tagmap" /\ date # "") =>
        \A i \in 1..Len(entries) : entries[i].date # ZeroTime

----------------------------------------------------------------------------
(* The tagmap through the pipeline.                                        *)

\* the steps at which Grep, Find and Diff have had their turn
PastGrep == {"find", "diff", "intersect", "invert", "adjacencies", "print", "exit"}

PastFind == PastGrep \ {"find"}

PastDiff == PastFind \ {"diff"}

\* the filenames Grep adds under t: the test Grep makes on each record
GrepAdds(t) ==
    {entries[i].filename :
        i \in {k \in 1..Len(entries) : Contains(ToLower(entries[k].content), t)}}

\* the filenames the widening steps that have run added under T
Widened(T) ==
    IF T \notin Range(queries) THEN {}
    ELSE (IF grep /\ pc \in PastGrep THEN GrepAdds(T) ELSE {})
            \cup (IF find /\ pc \in PastFind THEN NameMatches(T) ELSE {})

\* the filenames Diff has removed from under T, once it has run
Narrowed(T) ==
    IF diff /\ pc \in PastDiff /\ T \in Range(queries) THEN Tagged(T) ELSE {}

\* the tags the tagmap properties range over
TagmapKeys == DOMAIN tagmap \cup Terms \cup Range(queries)

\* C14 as stated: at every stage after the tag index is built, Diff included,
\* f is in tagmap[T] iff the record f is tagged T or a widening step added f
\* under T.
C14_TaggedOrWidened ==
    pc \in {"grep"} \cup PastGrep =>
        \A T \in TagmapKeys : Get(tagmap, T) = Tagged(T) \cup Widened(T)

\* C14 amended: at every stage after the tag index is built, f is in tagmap[T]
\* iff the record f is tagged T or a widening step added f under T, and Diff
\* has not removed f from under T (Diff removes, for a query term T, the
\* filenames of the records tagged T).
C14_TaggedOrWidenedUntilDiff ==
    pc \in {"grep"} \cup PastGrep =>
        \A T \in TagmapKeys :
            Get(tagmap, T) = (Tagged(T) \cup Widened(T)) \ Narrowed(T)

\* Grep, Find and Diff have all run; under one term a widened file is left and
\* a tagged one is gone, and another tag still has its files
C14_Witness ==
    /\ pc = "intersect"
    /\ grep /\ find /\ diff
    /\ \E T \in Range(queries) :
          /\ Get(tagmap, T) # {}
          /\ Tagged(T) # {}
    /\ \E T \in DOMAIN tagmap \ Range(queries) : tagmap[T] # {}

----------------------------------------------------------------------------
(* The order of the steps.                                                 *)

\* the steps of an invocation in the order the pipeline fixes
StepOrder ==
    <<"start", "date", "tagmap", "grep", "find", "diff", "intersect", "invert",
      "adjacencies", "print", "exit">>

\* the place of a step in that order
Rank(p) == CHOOSE i \in 1..Len(StepOrder) : StepOrder[i] = p

\* C15: in every invocation, for every combination of flags, the steps run in
\* the fixed order Date, Tagmap, Grep, Find, Diff, evaluation, Invert,
\* adjacencies: each step hands over to the next one of the order; the records
\* change only at loading and the Date filter; the tagmap changes only at the
\* index build and at Grep, Find and Diff, never once evaluation has read it;
\* the result set changes only at evaluation and at Invert, and Invert starts
\* from the evaluation of the final tagmap; the adjacencies are built last.
C15_FixedOrder ==
    [][/\ pc' # pc => (Rank(pc') = Rank(pc) + 1 \/ (pc = "start" /\ pc' = "exit"))
       /\ entries' # entries => pc \in {"start", "date"}
       /\ tagmap' # tagmap => pc \in {"tagmap", "grep", "find", "diff"}
       /\ files' # files => pc \in {"intersect", "invert"}
       /\ pc = "invert" => files = IntersectQueries(tagmap', queries)
       /\ (adjacencies' # adjacencies \/ reduced' # reduced) => pc = "adjacencies"
       /\ output' # output => pc' = "exit"]_vars

\* an invocation with every flag given has run to its end with a result
C15_Witness ==
    /\ pc = "exit"
    /\ date # "" /\ grep /\ find /\ diff /\ invert /\ verbose
    /\ files # {}
    /\ reduced # {}

----------------------------------------------------------------------------
(* The report.                                                             *)

\* every output Print of part_001 can write for the same arguments
PrintOutputs(fs, adj, qs, v) == {PrintOut(fs, m, qs, v) : m \in SetMembers(adj)}

\* C16: the report is a function of the result set, the reduced adjacency
\* set, the query terms and the verbose flag: every call of Print with the
\* arguments of this run writes the output this run wrote, the order of the
\* [adjacencies] lines included.
C16_PrintDeterministic ==
    (pc = "exit" /\ Len(args) > 0) =>
        \A o \in PrintOutputs(files, reduced, queries, verbose) : o = output

\* the [sums] section that states the cardinalities of the two sets
SumsOfCardinalities(fs, adj) ==
    "[sums]\nfiles = " \o Itoa(Cardinality(fs))
        \o "\nadjacencies = " \o Itoa(Cardinality(adj)) \o "\n"

\* C17: in the verbose report of Print of part_001 and of Print of part_002
\* the [sums] section gives, after "files =", the number of filenames of the
\* result set and, after "adjacencies =", the number of tags of the reduced
\* adjacency set, the empty result set included.
C17_SumsAreCardinalities ==
    pc = "print" =>
        /\ Sums(files, reduced) = SumsOfCardinalities(files, reduced)
        /\ Sums002(SprintFiles(files), reduced) = SumsOfCardinalities(files, reduced)
        /\ \A m \in SetMembers(reduced) :
              /\ Contains(PrintOut(files, m, queries, TRUE),
                          SumsOfCardinalities(files, reduced))
              /\ Contains(PrintOut002(files, m, queries, TRUE),
                          SumsOfCardinalities(files, reduced))

----------------------------------------------------------------------------
(* Terms without an index entry.                                           *)

\* the query terms no record is tagged with
UnknownTerms == {t \in Range(queries) : Tagged(t) = {}}

\* C19: a query term with no tagmap entry never causes a failure: Grep (of
\* part_001 and of part_000), Find and Diff complete for it, and when it
\* matches no body and no filename the tagmap has no key for it after the
\* three steps and the evaluation of a query with that term is empty.
C19_UnknownTermHarmless ==
    /\ (pc = "grep" /\ grep /\ UnknownTerms # {}) =>
          ~Grep000(entries, tagmap, queries).panicked
    /\ pc \in {"find", "diff", "intersect", "invert"} =>
          \A t \in UnknownTerms :
              (BodyMatches(t) = {} /\ NameMatches(t) = {}) =>
                  /\ t \notin DOMAIN tagmap
                  /\ pc = "invert" => files = {}

----------------------------------------------------------------------------
(* The command line.                                                       *)

\* the invocation carries no query: no positional argument and no --query
NoQueryExpression ==
    \/ Len(args) = 0
    \/ HasPrefix(args[1], "-") /\ "--query" \notin Range(args)

\* C20: an invocation without a query expression, with or without other
\* flags, prints usage and exits: it never leaves the start for a pipeline
\* step, loads no record, builds no index, evaluates nothing, and what it has
\* written when it exits is the usage text.
C20_UsageWithoutQuery ==
    NoQueryExpression =>
        /\ pc \in {"start", "exit"}
        /\ entries = <<>>
        /\ DOMAIN tagmap = {}
        /\ files = {}
        /\ pc = "exit" => output = Usage

----------------------------------------------------------------------------
(* The fork-join of main.go.                                               *)

\* the steps of main.go that query: Grep, Find, Diff, Collect or Intersections
\* ("intersect"), and the exit after them
QuerySteps == {"grep", "find", "diff", "intersect"}

\* C18: in every interleaving of the fork-join, when a query step (Grep, Find,
\* Diff, Collect or Intersections) is about to run or has run, both goroutines
\* have finished and main has received both maps; the maps main holds after a
\* receive are the complete Tagmap(entries) and the complete
\* Adjacencies(entries), never a partly built one.
C18_JoinBeforeQuery ==
    /\ (pc \in QuerySteps \/ (pc = "exit" /\ output # Usage)) =>
          /\ tmtask.pc = "done"
          /\ adtask.pc = "done"
          /\ adjacencies = Adjacencies(entries, Corpus)
    /\ pc \in {"recv_ad", "grep"} =>
          /\ tmtask.pc = "done"
          /\ tagmap = Tagmap(entries)

\* main is at Grep with both maps of two or more records, one of them tagged
C18_Witness ==
    /\ pc = "grep"
    /\ Len(entries) >= 2
    /\ tmtask.pc = "done" /\ adtask.pc = "done"
    /\ DOMAIN tagmap # {}
    /\ \E T \in DOMAIN adjacencies : adjacencies[T] # {}

----------------------------------------------------------------------------
(* The header parser.                                                      *)

\* the lines of a text: the last piece of the split is a line only when it is
\* not empty (a text that ends in "\n" has no further line)
Lines(text) ==
    LET parts == Split(text, "\n")
    IN  IF parts[Len(parts)] = "" THEN SubSeq(parts, 1, Len(parts) - 1) ELSE parts

\* the lines before the first blank (empty) line, all of them when none is blank
HeaderLines(text) ==
    LET lines  == Lines(text)
        blanks == {k \in 1..Len(lines) : lines[k] = ""}
    IN  IF blanks = {} THEN lines
        ELSE SubSeq(lines, 1, (CHOOSE k \in blanks : \A j \in blanks : k <= j) - 1)

\* C21: every record has as its tags the "+ " lines of its header, in their
\* order, and as its date the first ": " line of its header, the header being
\* the lines before the first blank line of the text (all lines when none is
\* blank): a "+ " or ": " line after the first blank line gives no tag, no date.
C21_HeaderOnly ==
    (pc = "date" /\ Len(args) = 2) =>
        \A i \in 1..Len(entries) :
            LET header == HeaderLines(entries[i].content)
            IN  /\ entries[i].tags = ParseTagsLines(header, 1)
                /\ entries[i].date = ParseDate(Join(header, "\n"))

----------------------------------------------------------------------------
(* Inversion, twice.                                                       *)

\* C22: Invert is an involution relative to the corpus: for the record list
\* of the run, before and after the date filter, and every set S of filenames
\* of its records, Invert(entries, Invert(entries, S)) = S; in a run with
\* --invert, inverting the result set again gives the evaluated result back.
C22_InvertInvolution ==
    /\ (pc \in {"date", "tagmap"} /\ Len(args) = 2) =>
          \A S \in SUBSET Corpus : Invert(entries, Invert(entries, S)) = S
    /\ (pc = "adjacencies" /\ invert) =>
          Invert(entries, files) = IntersectQueries(tagmap, queries)

\* a run with --invert has inverted a result that is neither empty nor the corpus
C22_Witness ==
    /\ pc = "adjacencies"
    /\ invert
    /\ files # {}
    /\ Invert(entries, files) # {}
    /\ Cardinality(Corpus) >= 3

----------------------------------------------------------------------------
(* The two goroutines and what they share.                                 *)

\* C23: in every interleaving the record slice changes at no step after
\* loading, so neither goroutine modifies it; a step that changes the map one
\* goroutine is building leaves the other goroutine, and the maps of main,
\* untouched; and the map main receives from each goroutine is the map the
\* sequential call computes, Tagmap(entries) and Adjacencies(entries).
C23_TasksShareNothing ==
    [][/\ entries' # entries => pc = "start"
       /\ tmtask' # tmtask /\ pc' = pc =>
             adtask' = adtask /\ tagmap' = tagmap /\ adjacencies' = adjacencies
       /\ adtask' # adtask /\ pc' = pc =>
             tmtask' = tmtask /\ tagmap' = tagmap /\ adjacencies' = adjacencies
       /\ pc = "recv_tm" /\ pc' # pc =>
             tagmap' = Tagmap(entries') /\ adtask' = adtask
       /\ pc = "recv_ad" /\ pc' # pc =>
             adjacencies' = Adjacencies(entries', Corpus') /\ tmtask' = tmtask]_vars

\* both maps are received; a record with three tags is as it was loaded and
\* each of its tags has the two others as adjacent tags
C23_Witness ==
    /\ pc = "grep"
    /\ entries = Entries(filelist)
    /\ \E i \in 1..Len(entries) :
          /\ Len(entries[i].tags) = 3
          /\ \A j \in 1..3 :
                Cardinality(adjacencies[entries[i].tags[j]]) >= 2
    /\ tagmap = Tagmap(entries)

----------------------------------------------------------------------------
(* The fork-join completes.                                                *)

\* C24: the fork-join never deadlocks: under fair scheduling, once main has
\* loaded the records and is about to start the goroutines, it eventually
\* holds both maps and is at the first query step, whichever goroutine
\* finishes first.
C24_JoinCompletes == (pc = "go_tm") ~> (pc = "grep")

\* the adjacency goroutine is ready to send on adch while main still waits on
\* tmch for the tagmap goroutine, which is in the middle of its loop
C24_Witness ==
    /\ pc = "recv_tm"
    /\ adtask.pc = "send"
    /\ tmtask.pc = "run"
    /\ tmtask.i = 2
    /\ Len(entries) >= 2

----------------------------------------------------------------------------
(* The frame of Grep, Find and Diff.                                       *)

\* what a step of main at Grep, Find or Diff may change
QueryFrameStep ==
    pc \in {"grep", "find", "diff"} =>
        /\ entries' = entries
        /\ \A T \in (DOMAIN tagmap \cup DOMAIN tagmap') \ Range(queries) :
              /\ T \in DOMAIN tagmap
              /\ T \in DOMAIN tagmap'
              /\ tagmap'[T] = tagmap[T]
        /\ pc \in {"grep", "find"} =>
              \A T \in DOMAIN tagmap :
                  T \in DOMAIN tagmap' /\ tagmap[T] \subseteq tagmap'[T]
        /\ pc = "diff" =>
              \A T \in DOMAIN tagmap' :
                  T \in DOMAIN tagmap /\ tagmap'[T] \subseteq tagmap[T]

\* C25: Grep, Find and Diff change only the tagmap entries keyed by the query
\* terms: at each of the three steps every tag that is not a query term has
\* the same filename set (and the same presence in the map) before and
\* after, and the record list is unchanged; Grep and Find keep every key and
\* remove no filename from any entry, Diff adds no key and no filename.
C25_QueryFrame == [][QueryFrameStep]_vars

\* all three have run: a query term gained a filename by content, one gained
\* a filename by name, a term lost a tagged filename, and a tag that is not a
\* query term still maps to exactly the filenames that carry it
C25_Witness ==
    /\ pc = "intersect"
    /\ grep /\ find /\ diff
    /\ \E T \in Range(queries) :
          /\ GrepAdds(T) \ Tagged(T) # {}
          /\ Tagged(T) # {}
    /\ \E T \in Range(queries) : NameMatches(T) \ Tagged(T) # {}
    /\ \E U \in DOMAIN tagmap \ Range(queries) :
          tagmap[U] # {} /\ tagmap[U] = Tagged(U)

----------------------------------------------------------------------------
(* The result set and the date filter.                                     *)

\* the filenames of the loaded records that the Date filter of this run keeps
Survivors ==
    LET es   == Entries(filelist)
        kept == IF date # "" THEN Date(es, date) ELSE es
    IN  {kept[i].filename : i \in 1..Len(kept)}

\* C26: for every combination of the date, grep, find, diff and invert
\* options, every filename of the result set, before and after Invert, is the
\* filename of a record that survived the Date filter, and so is every line
\* of the printed file list; with --date and --invert together nothing
\* outside the date window is put out.
C26_ResultSurvivedDate ==
    /\ pc \in {"invert", "adjacencies"} => files \subseteq Survivors
    /\ (pc = "exit" /\ Len(args) > 0 /\ ~verbose) =>
          Range(Split(output, "\n")) \ {""} \subseteq Survivors

\* a run with a well-formed --date and --invert has printed a non-empty
\* inverted result while the filter had dropped a record whose filename no
\* kept record has
C26_Witness ==
    /\ pc = "exit"
    /\ date \in WellFormedDates
    /\ invert
    /\ ~verbose
    /\ files # {}
    /\ output = SprintFiles(files)
    /\ \E i \in 1..Len(Entries(filelist)) :
          Entries(filelist)[i].filename \notin Survivors

----------------------------------------------------------------------------
(* Diff without a widening step.                                           *)

\* C27: with --diff and none of --grep, --find and --invert the result set is
\* empty for every corpus and every query: once Diff has run the tagmap has
\* no filename left under any query term, evaluation yields the empty set
\* and the plain output is one empty line.
C27_DiffAloneIsEmpty ==
    (diff /\ ~grep /\ ~find /\ ~invert) =>
        /\ pc \in PastDiff => \A i \in 1..Len(queries) : Get(tagmap, queries[i]) = {}
        /\ pc \in PastDiff \ {"intersect"} => files = {}
        /\ (pc = "exit" /\ ~verbose) => output = "\n"

\* such a run has ended with nothing to print although every query term is a
\* tag of some loaded record
C27_Witness ==
    /\ pc = "exit"
    /\ diff /\ ~grep /\ ~find /\ ~invert /\ ~verbose
    /\ Len(queries) >= 2
    /\ \A i \in 1..Len(queries) : Tagged(queries[i]) # {}
    /\ \E f \in Corpus : \A i \in 1..Len(queries) : f \in Tagged(queries[i])
    /\ files = {}
    /\ output = "\n"

----------------------------------------------------------------------------
(* The filename as the identity of a record.                               *)

\* C28: the filename of a record identifies it: two distinct sources of the
\* loaded file list never yield records with the same filename, so that the
\* number of filenames the index holds under a tag is the number of records
\* that carry the tag.
C28_FilenameUnique ==
    /\ pc # "start" =>
          \A i, j \in 1..Len(entries) :
              entries[i].filename = entries[j].filename => i = j
    /\ pc = "grep" =>
          \A T \in DOMAIN tagmap :
              Cardinality(tagmap[T])
                  = Cardinality({k \in 1..Len(entries) : T \in Range(entries[k].tags)})

====
